---- MODULE Spec2Model ----
(***************************************************************************)
(* go-lazy: the Value[T] container (New, NewLazy, Get) and the two         *)
(* combinators Map and FlatMap, with T = R = int.                          *)
(*                                                                         *)
(* Every Go function is modelled as a transformer of the "world" st, the   *)
(* state that the caller's closures capture by reference (the counters     *)
(* and flags of the tests) together with a log of the calls made during    *)
(* the running operation.  A function returns a result record              *)
(*     [ok, val, pv, st]                                                   *)
(* ok = FALSE means the call panicked with panic value pv; st is the world *)
(* at the moment of the return or of the panic.                            *)
(***************************************************************************)
EXTENDS Integers, Sequences, FiniteSets

VARIABLES heap, made, thunk, fn, inner, gets, log, last, ncalls

vars == <<heap, made, thunk, fn, inner, gets, log, last, ncalls>>

\* ---------------------------------------------------------------- bounds
MaxHeap == 3        \* number of containers the caller constructs
MaxGets == 2        \* number of Get calls the caller makes

Ids == 1..MaxHeap

\* values the caller passes to New
NewValues == {5}

\* ---------------------------------------------------------------- values
Nil == [nil |-> TRUE]               \* nil *wrapper[T]
NilFn == [kind |-> "nil"]           \* nil func() T

ZeroT == 0                          \* *new(T) for T = int

Ok(v, st) == [ok |-> TRUE, val |-> v, pv |-> "", st |-> st]
Panic(p, st) == [ok |-> FALSE, val |-> ZeroT, pv |-> p, st |-> st]

Bump(f, id) == IF id \in DOMAIN f THEN [f EXCEPT ![id] = @ + 1] ELSE f

Event(e, id, v) == [e |-> e, id |-> id, val |-> v]

Logged(st, e, id, v) == [st EXCEPT !.log = Append(@, Event(e, id, v))]

RECURSIVE Get(_, _), Invoke(_, _), MapThunk(_, _, _), FlatMapThunk(_, _, _)

\* ------------------------------------------------------- the container
\* a wrapper read that loses the value
wrapperGetZero(w) == ZeroT

\* func (w *wrapper[T]) Get() T
wrapperGet(w) == w.value

\* func New[T any](value T) Value[T]
\* addr is the address of the freshly allocated wrapper; it is 0 until the
\* caller stores the container in a variable (see Stored).
New(value, st) ==
    Ok([wrapper |-> [value |-> value, addr |-> 0],
        lazy    |-> NilFn,
        isLazy  |-> FALSE], st)

\* a NewLazy that also allocates an (empty) wrapper
NewLazyWithWrapper(lazy, st) ==
    Ok([wrapper |-> [value |-> ZeroT, addr |-> 0],
        lazy    |-> lazy,
        isLazy  |-> TRUE], st)

\* a NewLazy that runs the function once at construction
NewLazyEager(lazy, st) ==
    LET r == Invoke(lazy, st)
    IN  Ok([wrapper |-> Nil, lazy |-> lazy, isLazy |-> TRUE], r.st)

\* func NewLazy[T any](lazy func() T) Value[T]
NewLazy(lazy, st) ==
    Ok([wrapper |-> Nil,
        lazy    |-> lazy,
        isLazy  |-> TRUE], st)

\* var val Value[T]: the zero value of the struct
ZeroValue == [wrapper |-> Nil, lazy |-> NilFn, isLazy |-> FALSE]


\* ------------------------------------------- the caller's function values
\* A function value has an identity (id): the closure the caller allocated.
\* Thunks passed to NewLazy (flatmap_test.go:385-390):
\*   "count"  sideEffect++; return sideEffect
\*   "panic"  panic("thunk")
ThunkBehs == {"count", "panic"}

UserThunk(beh, id) == [kind |-> "thunk", beh |-> beh, id |-> id]

CallThunk(c, st) ==
    LET st1 == Logged([st EXCEPT !.thunk = Bump(@, c.id)], "thunk", c.id, 0)
    IN  CASE c.beh = "count" -> Ok(st1.thunk[c.id], st1)
          [] c.beh = "panic" -> Panic("thunk", st1)

\* Functions passed to Map (part_000:70-73):
\*   "inc"    mapCalled = true; return x + 1
\*   "panic"  panic("fn")
MapFns == {"inc", "panic"}

UserFn(name, id) == [name |-> name, id |-> id]

ApplyFn(f, x, st) ==
    LET st1 == Logged([st EXCEPT !.fn = Bump(@, f.id)], "fn", f.id, x)
    IN  CASE f.name = "inc"   -> Ok(x + 1, st1)
          [] f.name = "panic" -> Panic("fn", st1)

\* The thunk of the container a FlatMap function returns
\* (flatmap_test.go:153-156):  callCount++; return x * 2   or a panic
InnerThunk(beh, x, id) == [kind |-> "inner", beh |-> beh, x |-> x, id |-> id]

CallInner(c, st) ==
    LET st1 == Logged([st EXCEPT !.inner = Bump(@, c.id)], "inner", c.id, 0)
    IN  CASE c.beh = "dbl"   -> Ok(c.x * 2, st1)
          [] c.beh = "panic" -> Panic("inner", st1)

\* Functions passed to FlatMap (flatmap_test.go:10-12, 76-79, 153-158):
\*   "imm"        flatMapCalled = true; return New(x + 1)
\*   "lazy"       return NewLazy(func() int { callCount++; return x * 2 })
\*   "lazyPanic"  return NewLazy(func() int { panic("inner") })
\*   "panic"      panic("fn")
FlatFns == {"imm", "lazy", "lazyPanic", "panic"}

ApplyFlatFn(f, x, st) ==
    LET st1 == Logged([st EXCEPT !.fn = Bump(@, f.id)], "fn", f.id, x)
    IN  CASE f.name = "imm"       -> New(x + 1, st1)
          [] f.name = "lazy"      -> NewLazy(InnerThunk("dbl", x, f.id), st1)
          [] f.name = "lazyPanic" -> NewLazy(InnerThunk("panic", x, f.id), st1)
          [] f.name = "panic"     -> Panic("fn", st1)

\* ------------------------------------------------------------------ Get
\* The identity of a container, for counting the Get calls made on it:
\* the closure it holds or the wrapper it points to.  The zero Value and
\* the containers a FlatMap function returns have none (0).
ClosureId(c) ==
    CASE c.kind = "thunk"   -> c.id
      [] c.kind = "map"     -> c.f.id
      [] c.kind = "flatmap" -> c.f.id
      [] OTHER              -> 0

Ident(l) ==
    IF l.isLazy THEN ClosureId(l.lazy)
    ELSE IF l.wrapper = Nil THEN 0 ELSE l.wrapper.addr

\* a Map closure that memoizes: after its first run it returns the result
\* without retrieving the source or calling f again
MapThunkMemo(v, f, st) ==
    LET r == Get(v, st)
        a == IF r.ok THEN ApplyFn(f, r.val, r.st) ELSE r
    IN  IF st.fn[f.id] > 0 THEN [a EXCEPT !.st = st] ELSE a

\* a Map closure that applies f twice
MapThunkTwice(v, f, st) ==
    LET r == Get(v, st)
    IN  IF ~r.ok THEN r
        ELSE LET a == ApplyFn(f, r.val, r.st)
             IN  IF ~a.ok THEN a ELSE ApplyFn(f, a.val, a.st)

\* a Map closure that recovers from a panic of the source and goes on with
\* the zero value
MapThunkRecover(v, f, st) ==
    LET r == Get(v, st)
    IN  IF ~r.ok THEN ApplyFn(f, ZeroT, r.st) ELSE ApplyFn(f, r.val, r.st)

\* a Map closure that returns the source's value untransformed
MapThunkNoApply(v, f, st) == Get(v, st)

\* the closure of Map:      func() R { return f(v.Get()) }
MapThunk(v, f, st) ==
    LET r == Get(v, st)
    IN  IF ~r.ok THEN r ELSE ApplyFn(f, r.val, r.st)

\* a FlatMap closure that calls f (on the zero value) before it retrieves
\* the source
FlatMapThunkFnFirst(v, f, st) ==
    LET p == ApplyFlatFn(f, ZeroT, st)
        r == Get(v, p.st)
    IN  IF ~p.ok THEN p
        ELSE IF ~r.ok THEN r
        ELSE LET m == ApplyFlatFn(f, r.val, r.st)
             IN  IF ~m.ok THEN m ELSE Get(m.val, m.st)

\* a FlatMap closure that unwraps only an immediate intermediate container
FlatMapThunkImmOnly(v, f, st) ==
    LET r == Get(v, st)
    IN  IF ~r.ok THEN r
        ELSE LET m == ApplyFlatFn(f, r.val, r.st)
             IN  IF ~m.ok THEN m
                 ELSE IF m.val.isLazy THEN Ok(ZeroT, m.st)
                 ELSE Get(m.val, m.st)

\* the closure of FlatMap:  func() R { return f(v.Get()).Get() }
FlatMapThunk(v, f, st) ==
    LET r == Get(v, st)
    IN  IF ~r.ok THEN r
        ELSE LET m == ApplyFlatFn(f, r.val, r.st)
             IN  IF ~m.ok THEN m ELSE Get(m.val, m.st)

\* l.lazy(): the call of a function value; calling a nil one panics
Invoke(c, st) ==
    CASE c.kind = "nil"     -> Panic("nil func call", st)
      [] c.kind = "thunk"   -> CallThunk(c, st)
      [] c.kind = "inner"   -> CallInner(c, st)
      [] c.kind = "map"     -> MapThunk(c.v, c.f, st)
      [] c.kind = "flatmap" -> FlatMapThunk(c.v, c.f, st)

\* a return of Get is logged with the value returned
Returned(l, r) ==
    IF r.ok THEN [r EXCEPT !.st = Logged(@, "ret", Ident(l), r.val)] ELSE r

\* a Get whose zero-value fallback also covers a nil function
GetNilSafe(l, st) ==
    LET st1 == Logged([st EXCEPT !.gets = Bump(@, Ident(l))], "get", Ident(l), 0)
    IN  IF l.isLazy /\ l.lazy # NilFn
        THEN Returned(l, Invoke(l.lazy, st1))
        ELSE IF l.wrapper = Nil
             THEN Returned(l, Ok(ZeroT, st1))
             ELSE Returned(l, Ok(wrapperGet(l.wrapper), st1))

\* a Get without the nil check of the wrapper
GetNoNilCheck(l, st) ==
    LET st1 == Logged([st EXCEPT !.gets = Bump(@, Ident(l))], "get", Ident(l), 0)
    IN  IF l.isLazy
        THEN Returned(l, Invoke(l.lazy, st1))
        ELSE IF l.wrapper = Nil
             THEN Panic("nil pointer dereference", st1)
             ELSE Returned(l, Ok(wrapperGet(l.wrapper), st1))

\* func (l Value[T]) Get() T
Get(l, st) ==
    LET st1 == Logged([st EXCEPT !.gets = Bump(@, Ident(l))], "get", Ident(l), 0)
    IN  IF l.isLazy
        THEN Returned(l, Invoke(l.lazy, st1))
        ELSE IF l.wrapper = Nil
             THEN Returned(l, Ok(ZeroT, st1))
             ELSE Returned(l, Ok(wrapperGet(l.wrapper), st1))

\* ------------------------------------------------------ the combinators
\* a Map that computes the result once while constructing
MapEager(v, f, st) ==
    LET r == MapThunk(v, f, st)
    IN  NewLazy([kind |-> "map", v |-> v, f |-> f], r.st)

\* func Map[T any, R any](v Value[T], f func(T) R) Value[R]
Map(v, f, st) == NewLazy([kind |-> "map", v |-> v, f |-> f], st)

\* func FlatMap[T any, R any](v Value[T], f func(T) Value[R]) Value[R]
FlatMap(v, f, st) == NewLazy([kind |-> "flatmap", v |-> v, f |-> f], st)

\* ---------------------------------------------------------- the caller
\* The caller keeps the containers it constructs in variables heap[1..];
\* thunk, fn, inner are the counters its closures increment; gets counts
\* the Get calls per container; log holds the calls of the last operation,
\* last its outcome; ncalls counts the Get calls the caller itself made.
\* made[i] records the call that constructed heap[i].
World == [thunk |-> thunk, fn |-> fn, inner |-> inner, gets |-> gets,
          log |-> <<>>]

\* storing a container built by New fixes the address of its wrapper
Stored(c, i) ==
    IF ~c.isLazy /\ c.wrapper # Nil
    THEN [c EXCEPT !.wrapper.addr = i] ELSE c

Commit(op, i, r) ==
    /\ thunk' = r.st.thunk
    /\ fn' = r.st.fn
    /\ inner' = r.st.inner
    /\ gets' = r.st.gets
    /\ log' = r.st.log
    /\ last' = [op |-> op, slot |-> i, ok |-> r.ok,
                val |-> IF op = "Get" /\ r.ok THEN r.val ELSE ZeroT,
                pv |-> r.pv]

Call(op, arg, beh, src, f) ==
    [op |-> op, arg |-> arg, beh |-> beh, src |-> src, f |-> f]

Construct(call, r) ==
    /\ Len(heap) < MaxHeap
    /\ r.ok
    /\ heap' = Append(heap, Stored(r.val, Len(heap) + 1))
    /\ made' = Append(made, call)
    /\ Commit(call.op, Len(heap) + 1, r)
    /\ UNCHANGED ncalls

Init ==
    /\ heap = <<>>
    /\ made = <<>>
    /\ thunk = [i \in Ids |-> 0]
    /\ fn = [i \in Ids |-> 0]
    /\ inner = [i \in Ids |-> 0]
    /\ gets = [i \in Ids |-> 0]
    /\ log = <<>>
    /\ last = [op |-> "Init", slot |-> 0, ok |-> TRUE, val |-> ZeroT, pv |-> ""]
    /\ ncalls = 0

\* val := New(v)
DoNew ==
    \E v \in NewValues :
        Construct(Call("New", v, "", 0, ""), New(v, World))

\* var val Value[int]
DoZero == Construct(Call("Zero", 0, "", 0, ""), Ok(ZeroValue, World))

\* val := NewLazy(func() int { ... })
DoNewLazy ==
    \E b \in ThunkBehs :
        Construct(Call("NewLazy", 0, b, 0, ""),
                  NewLazy(UserThunk(b, Len(heap) + 1), World))

\* val := NewLazy(nil)
DoNewLazyNil ==
    Construct(Call("NewLazyNil", 0, "", 0, ""), NewLazy(NilFn, World))

\* mapped := Map(val, func(x int) int { ... })
DoMap ==
    \E s \in DOMAIN heap, g \in MapFns :
        Construct(Call("Map", 0, "", s, g),
                  Map(heap[s], UserFn(g, Len(heap) + 1), World))

\* flatMapped := FlatMap(val, func(x int) Value[int] { ... })
DoFlatMap ==
    \E s \in DOMAIN heap, g \in FlatFns :
        Construct(Call("FlatMap", 0, "", s, g),
                  FlatMap(heap[s], UserFn(g, Len(heap) + 1), World))

\* got := val.Get()   (a panic is recovered by the caller and observed)
DoGet ==
    \E i \in DOMAIN heap :
        /\ ncalls < MaxGets
        /\ ncalls' = ncalls + 1
        /\ UNCHANGED <<heap, made>>
        /\ Commit("Get", i, Get(heap[i], World))

Next ==
    \/ DoNew
    \/ DoZero
    \/ DoNewLazy
    \/ DoNewLazyNil
    \/ DoMap
    \/ DoFlatMap
    \/ DoGet

Spec == Init /\ [][Next]_vars


\* =============================================================== claims
Slots == DOMAIN heap

\* the container the last operation constructed or retrieved
Touched == {i \in Slots : i = last.slot}

UserEvents == {"thunk", "fn", "inner"}

\* the calls of user-supplied functions in a log
UserCalls(l) == {p \in DOMAIN l : l[p].e \in UserEvents}

\* the observable outcome of a call: normal or panic, value, panic value
Outcome(r) == <<r.ok, IF r.ok THEN r.val ELSE ZeroT, r.pv>>

\* the caller's counters after a call
Counters(r) == <<r.st.thunk, r.st.fn, r.st.inner>>

\* the value the k-th invocation of the counting thunk returns
KthResult(k) == k

\* the value the function "inc" passed to Map computes from x
FnValue(g, x) == x + 1

\* the value held by the container a function passed to FlatMap returns
FlatValue(g, x) == IF g = "imm" THEN x + 1 ELSE x * 2

\* the last call of the function of container i in a log (0 if none)
LastFn(l, i) ==
    LET ps == {p \in DOMAIN l : l[p].e = "fn" /\ l[p].id = i}
    IN  IF ps = {} THEN 0 ELSE CHOOSE p \in ps : \A q \in ps : q <= p

\* a user-supplied function in the chain of container i fails (or is nil)
RECURSIVE Fails(_)
Fails(i) ==
    LET c == made[i]
    IN  CASE c.op = "NewLazy"    -> c.beh = "panic"
          [] c.op = "NewLazyNil" -> TRUE
          [] c.op = "Map"        -> Fails(c.src) \/ c.f = "panic"
          [] c.op = "FlatMap"    -> Fails(c.src) \/ c.f \in {"panic", "lazyPanic"}
          [] OTHER               -> FALSE

\* C1: NewLazy(f) does not invoke f; after n calls to Get on the container f
\* has been invoked exactly n times, and the k-th Get returns (or panics with)
\* the outcome of the k-th invocation of f.
C1_LazyInvokedOncePerGet ==
    \A i \in Slots :
        made[i].op = "NewLazy" =>
            /\ thunk[i] = gets[i]
            /\ (last.op = "NewLazy" /\ last.slot = i =>
                    thunk[i] = 0 /\ log = <<>>)
            /\ (last.op = "Get" /\ last.slot = i =>
                    /\ Cardinality({p \in DOMAIN log : log[p].e = "thunk"}) = 1
                    /\ last.ok = (made[i].beh # "panic")
                    /\ (last.ok => last.val = KthResult(gets[i]))
                    /\ (~last.ok => last.pv = "thunk"))

C1_Witness ==
    /\ last.op = "Get" /\ last.slot \in Slots
    /\ made[last.slot].op = "NewLazy" /\ made[last.slot].beh = "count"
    /\ gets[last.slot] = 2 /\ thunk[last.slot] = 2
    /\ last.ok /\ last.val = 2

\* values of T tried with New in the current state of the caller
ProbeValues == {-1, 0, 5, 42}

\* C2: New(v).Get() returns v on every call (the one just made and the next
\* one), invokes no user-supplied function and has no side effect.
C2_NewGetReturnsValue ==
    /\ \A v \in ProbeValues :
          LET r == Get(New(v, World).val, World)
          IN  Outcome(r) = <<TRUE, v, "">> /\ UserCalls(r.st.log) = {}
    /\ \A i \in Touched :
        made[i].op = "New" =>
            LET r == Get(heap[i], World)
            IN  /\ Outcome(r) = <<TRUE, made[i].arg, "">>
                /\ Counters(r) = <<thunk, fn, inner>>
                /\ UserCalls(r.st.log) = {}
                /\ (last.op = "Get" =>
                        /\ last.ok /\ last.val = made[i].arg
                        /\ UserCalls(log) = {})

C2_Witness ==
    /\ last.op = "Get" /\ last.slot \in Slots
    /\ made[last.slot].op = "New" /\ made[last.slot].arg = 5
    /\ gets[last.slot] = 2
    /\ last.ok /\ last.val = 5

\* C3: for every container d and pure f, Map(d, f).Get() equals f(d.Get()):
\* the Get just made returned f of what the source's Get returned in it, and
\* a Get made now returns f of what d.Get() returns now.
C3_MapGetAppliesF ==
    \A i \in Touched :
        made[i].op = "Map" /\ made[i].f # "panic" =>
            LET d == Get(heap[made[i].src], World)
                m == Get(heap[i], World)
            IN  /\ d.ok => m.ok /\ m.val = FnValue(made[i].f, d.val)
                /\ (last.op = "Get" /\ last.ok =>
                        /\ Len(log) >= 3
                        /\ log[Len(log) - 2].e = "ret"
                        /\ last.val = FnValue(made[i].f, log[Len(log) - 2].val))

C3_Witness ==
    /\ last.op = "Get" /\ last.slot \in Slots
    /\ made[last.slot].op = "Map" /\ made[last.slot].f = "inc"
    /\ made[made[last.slot].src].op = "NewLazy"
    /\ made[made[last.slot].src].beh = "count"
    /\ gets[last.slot] = 2
    /\ last.ok /\ last.val = 3

\* C4: FlatMap(d, f).Get() equals f(d.Get()).Get(), in the same way for an
\* immediate and for a lazy container returned by f.
C4_FlatMapGetUnwraps ==
    \A i \in Touched :
        made[i].op = "FlatMap" /\ made[i].f # "panic" =>
            LET d == Get(heap[made[i].src], World)
                m == Get(heap[i], World)
                c == ApplyFlatFn(UserFn(made[i].f, i), d.val, d.st)
                e == Get(c.val, c.st)
            IN  /\ d.ok => /\ Outcome(m) = Outcome(e)
                           /\ Counters(m) = Counters(e)
                           /\ (made[i].f # "lazyPanic" =>
                                 m.ok /\ m.val = FlatValue(made[i].f, d.val))
                /\ (last.op = "Get" /\ last.ok =>
                        /\ LastFn(log, i) > 0
                        /\ last.val = FlatValue(made[i].f, log[LastFn(log, i)].val))

C4_Witness ==
    /\ last.op = "Get" /\ last.slot \in Slots
    /\ made[last.slot].op = "FlatMap" /\ made[last.slot].f = "lazy"
    /\ last.ok /\ last.val = 10
    /\ \E j \in Slots :
          made[j].op = "FlatMap" /\ made[j].f = "imm" /\ gets[j] = 1

\* C5: constructing with Map or FlatMap runs nothing: the construction makes
\* no call, and until the first Get on the new container its function and its
\* intermediate thunk have not run; a chain built by constructions alone has
\* run nothing at all.
C5_ConstructionRunsNothing ==
    /\ (last.op \in {"Map", "FlatMap"} => last.ok /\ log = <<>>)
    /\ \A i \in Slots :
          made[i].op \in {"Map", "FlatMap"} /\ gets[i] = 0 =>
              fn[i] = 0 /\ inner[i] = 0
    /\ (ncalls = 0 =>
          \A i \in Ids : thunk[i] = 0 /\ fn[i] = 0 /\ inner[i] = 0 /\ gets[i] = 0)

C5_Witness ==
    /\ last.op = "FlatMap" /\ Len(heap) = 3 /\ ncalls = 0
    /\ made[3].src = 2 /\ made[2].op = "Map" /\ made[2].src = 1
    /\ made[1].op = "NewLazy"
    /\ thunk[1] = 0 /\ fn[2] = 0 /\ fn[3] = 0

RECURSIVE SumGets(_)
SumGets(S) ==
    IF S = {} THEN 0
    ELSE LET j == CHOOSE j \in S : TRUE IN gets[j] + SumGets(S \ {j})

\* every Get on a Map/FlatMap result in the log goes on to retrieve its source
RetrievesSource(l) ==
    \A p \in DOMAIN l :
        (/\ l[p].e = "get" /\ l[p].id \in Slots
         /\ made[l[p].id].op \in {"Map", "FlatMap"}) =>
            /\ p < Len(l)
            /\ l[p + 1].e = "get"
            /\ l[p + 1].id = Ident(heap[made[l[p].id].src])

\* C6: no memoization: after n calls to Get on Map(d, f) or FlatMap(d, f)
\* whose source returns, the source has been retrieved n times, f has been
\* invoked n times and the thunk of the intermediate container n times.
C6_NoMemoization ==
    /\ RetrievesSource(log)
    /\ \A i \in Slots :
          made[i].op \in {"Map", "FlatMap"} =>
              LET s == made[i].src
              IN  /\ (Ident(heap[s]) # 0 =>
                        gets[s] >= SumGets({j \in Slots :
                                     /\ made[j].op \in {"Map", "FlatMap"}
                                     /\ made[j].src = s}))
                  /\ (~Fails(s) => fn[i] = gets[i])
                  /\ ((/\ ~Fails(s) /\ made[i].op = "FlatMap"
                       /\ made[i].f \in {"lazy", "lazyPanic"}) =>
                        inner[i] = gets[i])

C6_Witness ==
    /\ last.op = "Get" /\ last.slot \in Slots
    /\ made[last.slot].op = "FlatMap" /\ made[last.slot].f = "lazy"
    /\ made[made[last.slot].src].op = "New"
    /\ gets[last.slot] = 2 /\ gets[made[last.slot].src] = 2
    /\ fn[last.slot] = 2 /\ inner[last.slot] = 2
    /\ last.ok /\ last.val = 10

\* C7: Get on the zero Value returns the zero value of T on every call and
\* does not fail; the zero Value behaves like New(zero), also as the source
\* of Map and FlatMap.
C7_ZeroValueLikeNewZero ==
    /\ \A i \in Touched :
          made[i].op = "Zero" =>
              LET r == Get(heap[i], World)
                  n == Get(New(ZeroT, World).val, World)
              IN  /\ Outcome(r) = <<TRUE, ZeroT, "">>
                  /\ Outcome(r) = Outcome(n)
                  /\ Counters(r) = <<thunk, fn, inner>>
                  /\ UserCalls(r.st.log) = {}
                  /\ (last.op = "Get" =>
                        last.ok /\ last.val = ZeroT /\ UserCalls(log) = {})
    /\ \A j \in Touched :
          made[j].op \in {"Map", "FlatMap"} /\ made[made[j].src].op = "Zero" =>
              LET z == New(ZeroT, World).val
                  g == UserFn(made[j].f, j)
                  alt == IF made[j].op = "Map" THEN Map(z, g, World).val
                         ELSE FlatMap(z, g, World).val
                  r == Get(heap[j], World)
                  n == Get(alt, World)
              IN  /\ Outcome(r) = Outcome(n)
                  /\ Counters(r) = Counters(n)
                  /\ (last.op = "Get" /\ last.ok =>
                        last.val = IF made[j].op = "Map"
                                   THEN FnValue(made[j].f, ZeroT)
                                   ELSE FlatValue(made[j].f, ZeroT))
                  /\ (last.op = "Get" /\ ~last.ok =>
                        made[j].f \in {"panic", "lazyPanic"})

C7_Witness ==
    /\ last.op = "Get" /\ last.slot \in Slots /\ ncalls = 2
    /\ made[last.slot].op = "Map" /\ made[last.slot].f = "inc"
    /\ made[made[last.slot].src].op = "Zero"
    /\ gets[last.slot] = 1
    /\ last.ok /\ last.val = 1

\* C8: chaining: Map(Map(d, f), g).Get() equals g(f(d.Get())), and
\* FlatMap(Map(d, f), g).Get() equals g(f(d.Get())).Get().
C8_ChainingLaws ==
    \A k \in Touched :
        (/\ made[k].op \in {"Map", "FlatMap"}
         /\ made[made[k].src].op = "Map"
         /\ made[k].f \notin {"panic", "lazyPanic"}
         /\ made[made[k].src].f # "panic") =>
            LET j == made[k].src
                d == Get(heap[made[j].src], World)
                m == Get(heap[k], World)
                G(x) == IF made[k].op = "Map" THEN FnValue(made[k].f, x)
                        ELSE FlatValue(made[k].f, x)
            IN  /\ d.ok => m.ok /\ m.val = G(FnValue(made[j].f, d.val))
                /\ (last.op = "Get" /\ last.ok =>
                        /\ LastFn(log, j) > 1
                        /\ log[LastFn(log, j) - 1].e = "ret"
                        /\ last.val =
                             G(FnValue(made[j].f, log[LastFn(log, j) - 1].val)))

C8_Witness ==
    /\ last.op = "Get" /\ last.slot = 3 /\ Len(heap) = 3
    /\ made[3].op = "FlatMap" /\ made[3].f = "lazy" /\ made[3].src = 2
    /\ made[2].op = "Map" /\ made[2].f = "inc" /\ made[2].src = 1
    /\ made[1].op = "New" /\ made[1].arg = 5
    /\ last.ok /\ last.val = 12

\* a call in the log is one of a user-supplied function that fails
FailingCall(ev) ==
    \/ ev.e = "thunk" /\ made[ev.id].beh = "panic"
    \/ ev.e = "fn" /\ made[ev.id].f = "panic"
    \/ ev.e = "inner" /\ made[ev.id].f = "lazyPanic"

\* a Get with log l and outcome (ok, pv) passes a failure on unchanged: the
\* failing call is the last thing that ran and its panic is the outcome
Propagates(l, ok, pv) ==
    /\ \A p \in DOMAIN l :
          FailingCall(l[p]) => p = Len(l) /\ ~ok /\ pv = l[p].e
    /\ ~ok => \/ Len(l) > 0 /\ FailingCall(l[Len(l)]) /\ pv = l[Len(l)].e
              \/ pv = "nil func call"

\* C9: a failure of a user-supplied function during a Get reaches the caller
\* of the outermost Get unchanged; nothing runs after it: f is not invoked
\* when the source fails, no intermediate thunk when f fails.
C9_FailurePropagates ==
    /\ (last.op = "Get" =>
          /\ Propagates(log, last.ok, last.pv)
          /\ last.ok = ~Fails(last.slot))
    /\ \A i \in Slots :
          /\ (made[i].op \in {"Map", "FlatMap"} /\ Fails(made[i].src) =>
                fn[i] = 0 /\ inner[i] = 0)
          /\ (made[i].op = "FlatMap" /\ made[i].f = "panic" => inner[i] = 0)
    /\ \A i \in Touched :
          made[i].op \in {"Map", "FlatMap"} /\ Fails(made[i].src) =>
              LET r == Get(heap[i], World)
                  d == Get(heap[made[i].src], World)
              IN  /\ ~r.ok /\ r.pv = d.pv
                  /\ r.st.fn[i] = fn[i] /\ r.st.inner[i] = inner[i]
                  /\ (last.op = "Get" => ~last.ok /\ last.pv = d.pv)

C9_Witness ==
    /\ last.op = "Get" /\ last.slot = 3 /\ Len(heap) = 3
    /\ made[3].op = "FlatMap" /\ made[3].f = "lazy" /\ made[3].src = 2
    /\ made[2].op = "Map" /\ made[2].f = "inc" /\ made[2].src = 1
    /\ made[1].op = "NewLazy" /\ made[1].beh = "panic"
    /\ ~last.ok /\ last.pv = "thunk"
    /\ thunk[1] = 1 /\ fn[2] = 0 /\ fn[3] = 0 /\ inner[3] = 0

\* the containers not built by Map or FlatMap
Original(id) == id = 0 \/ made[id].op \in {"New", "NewLazy", "NewLazyNil"}

\* the calls in log l run innermost first
InnermostFirst(l) ==
    /\ RetrievesSource(l)
    /\ \A p \in DOMAIN l :
          /\ l[p].e = "fn" =>
                /\ p > 1
                /\ l[p - 1].e = "ret"
                /\ l[p - 1].id = Ident(heap[made[l[p].id].src])
                /\ l[p - 1].val = l[p].val
                /\ \E q \in 1..(p - 1) : l[q].e = "ret" /\ Original(l[q].id)
          /\ (/\ l[p].e = "fn" /\ made[l[p].id].op = "FlatMap"
              /\ made[l[p].id].f # "panic") =>
                /\ p < Len(l)
                /\ l[p + 1].e = "get" /\ l[p + 1].id = 0
          /\ l[p].e = "inner" =>
                /\ p > 2
                /\ l[p - 1].e = "get" /\ l[p - 1].id = 0
                /\ l[p - 2].e = "fn" /\ l[p - 2].id = l[p].id

\* C10: within one Get on a chain, evaluation is innermost first: the original
\* container is retrieved before any transformation runs, each transformation
\* runs right after the retrieval of its own source has returned, and FlatMap
\* retrieves the source, then calls f, then retrieves the container f returned.
C10_InnermostFirst ==
    /\ (last.op = "Get" => Len(log) > 0 /\ log[1] = Event("get", Ident(heap[last.slot]), 0))
    /\ InnermostFirst(log)

C10_Witness ==
    /\ Len(heap) = 3 /\ last.op = "Get" /\ last.slot = 3
    /\ made[1].op = "NewLazy" /\ made[1].beh = "count"
    /\ made[2].op = "Map" /\ made[2].f = "inc" /\ made[2].src = 1
    /\ made[3].op = "FlatMap" /\ made[3].f = "lazy" /\ made[3].src = 2
    /\ log = << Event("get", 3, 0), Event("get", 2, 0), Event("get", 1, 0),
                Event("thunk", 1, 0), Event("ret", 1, 1),
                Event("fn", 2, 1), Event("ret", 2, 2),
                Event("fn", 3, 2), Event("get", 0, 0),
                Event("inner", 3, 0), Event("ret", 0, 4),
                Event("ret", 3, 4) >>


\* the immediate variant: wrapper set, no function, not lazy
Immediate(c, v) ==
    /\ ~c.isLazy /\ c.lazy = NilFn
    /\ c.wrapper # Nil /\ c.wrapper.value = v

\* the computation variant: the function passed, no wrapper, lazy
Computation(c, f) ==
    /\ c.isLazy /\ c.lazy = f
    /\ c.wrapper = Nil

\* C11: every container returned by New, NewLazy, Map or FlatMap has exactly
\* one active variant (New: wrapper with the value, no function, not lazy;
\* NewLazy, Map, FlatMap: the function, no wrapper, lazy), and after any
\* sequence of Get, Map and FlatMap calls it is still the container its
\* constructor returned; the copy of the source a Map or FlatMap result holds
\* is still equal to the source.
C11_OneVariantNeverChanges ==
    /\ Len(made) = Len(heap)
    /\ \A i \in Slots :
          LET c == heap[i]
              m == made[i]
          IN  /\ m.op = "New" => Immediate(c, m.arg) /\ c.wrapper.addr = i
              /\ m.op = "Zero" => c = ZeroValue
              /\ m.op = "NewLazy" =>
                    Computation(c, UserThunk(m.beh, i)) /\ c.lazy # NilFn
              /\ m.op = "NewLazyNil" => Computation(c, NilFn)
              /\ m.op = "Map" =>
                    Computation(c, [kind |-> "map", v |-> heap[m.src],
                                    f |-> UserFn(m.f, i)])
              /\ m.op = "FlatMap" =>
                    Computation(c, [kind |-> "flatmap", v |-> heap[m.src],
                                    f |-> UserFn(m.f, i)])
              /\ m.op \in {"Map", "FlatMap"} => m.src \in 1..(i - 1)

C11_Witness ==
    /\ last.op = "Get" /\ last.slot = 2 /\ ncalls = 2 /\ Len(heap) = 3
    /\ made[1].op = "New" /\ Immediate(heap[1], 5)
    /\ made[2].op = "Map" /\ made[2].src = 1 /\ heap[2].lazy.v = heap[1]
    /\ made[3].op = "FlatMap" /\ made[3].src = 2 /\ heap[3].lazy.v = heap[2]
    /\ gets[1] = 2 /\ gets[2] = 2 /\ gets[3] = 1


\* container i is NewLazy(nil) or a Map/FlatMap chain built on one
RECURSIVE NilRooted(_)
NilRooted(i) ==
    \/ made[i].op = "NewLazyNil"
    \/ made[i].op \in {"Map", "FlatMap"} /\ NilRooted(made[i].src)

\* C12: the zero-value fallback of Get covers only the non-lazy branch: a
\* container built by NewLazy(nil) is lazy, Get on it calls the nil function
\* and fails instead of returning the zero value, and Get on a Map or FlatMap
\* result built on it fails in the same way, before any function runs.
C12_NilThunkFails ==
    /\ \A i \in Slots :
          /\ made[i].op = "NewLazyNil" =>
                heap[i].isLazy /\ heap[i].lazy = NilFn /\ heap[i].wrapper = Nil
          /\ made[i].op \in {"Map", "FlatMap"} /\ NilRooted(i) =>
                fn[i] = 0 /\ inner[i] = 0
    /\ (last.op = "Get" /\ NilRooted(last.slot) =>
          /\ ~last.ok /\ last.pv = "nil func call"
          /\ UserCalls(log) = {}
          /\ log[Len(log)] = Event("get", 0, 0)
          /\ \A p \in DOMAIN log : log[p].e = "get")
    /\ \A i \in Touched :
          NilRooted(i) =>
              LET r == Get(heap[i], World)
              IN  /\ ~r.ok /\ r.pv = "nil func call"
                  /\ Counters(r) = <<thunk, fn, inner>>

C12_Witness ==
    /\ last.op = "Get" /\ last.slot = 3 /\ ncalls = 2 /\ Len(heap) = 3
    /\ made[1].op = "NewLazyNil"
    /\ made[2].op = "Map" /\ made[2].f = "inc" /\ made[2].src = 1
    /\ made[3].op = "FlatMap" /\ made[3].f = "lazy" /\ made[3].src = 1
    /\ ~last.ok /\ last.pv = "nil func call"
    /\ gets[2] = 1 /\ gets[3] = 1 /\ fn[2] = 0 /\ fn[3] = 0 /\ inner[3] = 0

====
